---- MODULE Spec2Model ----
(***************************************************************************)
(* Model of the LINE / Google Calendar event bot (src/main.py).            *)
(*                                                                         *)
(* A Python str is modelled as a sequence of tokens.  A token is either    *)
(* one character ("7", "/", " ", "\n", ...) or one whole marker            *)
(* ("[TITLE]" stands for the bracketed Japanese title tag, and so on), so  *)
(* that startswith / in / replace / splitlines / strip / re.search act on  *)
(* the tokens exactly as the Python operations act on the characters.      *)
(***************************************************************************)
EXTENDS Integers, Sequences, FiniteSets, TLC

VARIABLES now, calendar, nextId, hpc, msg, pending, reply, calls, handled,
          rt, digestIn, pushed, dcalls

vars == <<now, calendar, nextId, hpc, msg, pending, reply, calls, handled,
          rt, digestIn, pushed, dcalls>>

-----------------------------------------------------------------------------
(* Markers and character classes *)

DELETE_MARK  == "[DEL]"
TITLE_MARK   == "[TITLE]"
DATE_MARK    == "[DATE]"
TIME_MARK    == "[TIME]"
CONTENT_MARK == "[CONTENT]"
URL_MARK     == "[URL]"

NL == "\n"
CR == "\r"

Digits == <<"0", "1", "2", "3", "4", "5", "6", "7", "8", "9">>

DigitValues == [d \in {Digits[i] : i \in 1..10} |->
                   (CHOOSE i \in 1..10 : Digits[i] = d) - 1]

IsDigit(t) == t \in DOMAIN DigitValues

DigitVal(t) == DigitValues[t]

\* str.strip() with no argument strips these
IsSpace(t) == t \in {" ", NL, CR}

\* str.splitlines() breaks at these
IsLineBreak(t) == t \in {NL, CR}

At(s, i) == IF i \in 1..Len(s) THEN s[i] ELSE ""

SetMin(S) == CHOOSE x \in S : \A y \in S : x <= y
SetMax(S) == CHOOSE x \in S : \A y \in S : y <= x

-----------------------------------------------------------------------------
(* Python str operations on token sequences *)

Contains(s, t) == \E i \in 1..Len(s) : s[i] = t

StartsWith(s, t) == Len(s) >= 1 /\ s[1] = t

\* s.replace(t, "")
Remove(s, t) == SelectSeq(s, LAMBDA x : x # t)

\* s.strip()
Strip(s) ==
    LET keep == {i \in 1..Len(s) : ~IsSpace(s[i])}
    IN  IF keep = {} THEN <<>> ELSE SubSeq(s, SetMin(keep), SetMax(keep))

\* s.splitlines(): the pieces between line breaks (empty pieces included;
\* the callers drop them)
RECURSIVE SplitLines(_)
SplitLines(s) ==
    LET brk == {i \in 1..Len(s) : IsLineBreak(s[i])}
    IN  IF brk = {} THEN (IF s = <<>> THEN <<>> ELSE <<s>>)
        ELSE LET b == SetMin(brk)
             IN  <<SubSeq(s, 1, b - 1)>> \o SplitLines(SubSeq(s, b + 1, Len(s)))

\* The text matched by (.+) starting at position p: up to the next "\n"
RestOfLine(s, p) ==
    LET stop == {i \in p..Len(s) : s[i] = NL}
    IN  SubSeq(s, p, IF stop = {} THEN Len(s) ELSE SetMin(stop) - 1)

\* re.search(marker + r'(.+)', s): group(1) of the leftmost match, or "none"
SearchText(s, marker) ==
    LET hits == {i \in 1..Len(s) : s[i] = marker /\ At(s, i + 1) \notin {"", NL}}
    IN  IF hits = {} THEN [found |-> FALSE, text |-> <<>>]
        ELSE [found |-> TRUE, text |-> RestOfLine(s, SetMin(hits) + 1)]

\* value of a run of one or two decimal digits
Num(s, from, n) ==
    IF n = 1 THEN DigitVal(s[from])
    ELSE 10 * DigitVal(s[from]) + DigitVal(s[from + 1])

\* Length of the first \d{1,2} group when marker(\d{1,2})sep... matches at i,
\* else 0.  The group is greedy and backtracks from two digits to one.
FirstGroup(s, i, seps) ==
    IF IsDigit(At(s, i + 1)) /\ IsDigit(At(s, i + 2)) /\ At(s, i + 3) \in seps
        THEN 2
    ELSE IF IsDigit(At(s, i + 1)) /\ At(s, i + 2) \in seps THEN 1
    ELSE 0

\* re.search(r'[DATE](\d{1,2})[/-](\d{1,2})', s)
SearchDate(s) ==
    LET ok(i) == /\ s[i] = DATE_MARK
                 /\ FirstGroup(s, i, {"/", "-"}) > 0
                 /\ IsDigit(At(s, i + FirstGroup(s, i, {"/", "-"}) + 2))
        hits == {i \in 1..Len(s) : ok(i)}
    IN  IF hits = {} THEN [found |-> FALSE, g1 |-> 0, g2 |-> 0]
        ELSE LET i  == SetMin(hits)
                 n1 == FirstGroup(s, i, {"/", "-"})
                 p2 == i + n1 + 2
                 n2 == IF IsDigit(At(s, p2 + 1)) THEN 2 ELSE 1
             IN  [found |-> TRUE, g1 |-> Num(s, i + 1, n1), g2 |-> Num(s, p2, n2)]

\* re.search(r'[TIME](\d{1,2}):(\d{2})', s)
SearchTime(s) ==
    LET ok(i) == /\ s[i] = TIME_MARK
                 /\ FirstGroup(s, i, {":"}) > 0
                 /\ IsDigit(At(s, i + FirstGroup(s, i, {":"}) + 2))
                 /\ IsDigit(At(s, i + FirstGroup(s, i, {":"}) + 3))
        hits == {i \in 1..Len(s) : ok(i)}
    IN  IF hits = {} THEN [found |-> FALSE, g1 |-> 0, g2 |-> 0]
        ELSE LET i  == SetMin(hits)
                 n1 == FirstGroup(s, i, {":"})
             IN  [found |-> TRUE, g1 |-> Num(s, i + 1, n1),
                  g2 |-> Num(s, i + n1 + 2, 2)]

\* s.split(sep)
RECURSIVE Split(_, _)
Split(s, sep) ==
    LET at == {i \in 1..Len(s) : s[i] = sep}
    IN  IF at = {} THEN <<s>>
        ELSE LET b == SetMin(at)
             IN  <<SubSeq(s, 1, b - 1)>> \o Split(SubSeq(s, b + 1, Len(s)), sep)

RECURSIVE DigitsValue(_)
DigitsValue(s) ==
    IF s = <<>> THEN 0
    ELSE 10 * DigitsValue(SubSeq(s, 1, Len(s) - 1)) + DigitVal(s[Len(s)])

\* int(s): surrounding whitespace and one sign are accepted, then digits only
IntParse(s) ==
    LET t    == Strip(s)
        neg  == At(t, 1) = "-"
        body == IF At(t, 1) \in {"-", "+"} THEN Tail(t) ELSE t
    IN  IF body # <<>> /\ \A i \in 1..Len(body) : IsDigit(body[i])
        THEN [ok |-> TRUE, val |-> IF neg THEN 0 - DigitsValue(body)
                                          ELSE DigitsValue(body)]
        ELSE [ok |-> FALSE, val |-> 0]

-----------------------------------------------------------------------------
(* datetime, timedelta, pytz Asia/Tokyo *)

JST_OFFSET == <<"+", "0", "9", ":", "0", "0">>

IsLeap(y) == y % 4 = 0 /\ (y % 100 # 0 \/ y % 400 = 0)

DaysInMonth(y, m) ==
    IF m = 2 THEN (IF IsLeap(y) THEN 29 ELSE 28)
    ELSE IF m \in {4, 6, 9, 11} THEN 30 ELSE 31

DaysBeforeYear(y) ==
    (y - 1) * 365 + ((y - 1) \div 4) - ((y - 1) \div 100) + ((y - 1) \div 400)

\* _DAYS_BEFORE_MONTH, and the leap day after February
DaysBeforeMonth(y, m) ==
    <<0, 31, 59, 90, 120, 151, 181, 212, 243, 273, 304, 334>>[m]
    + (IF m > 2 /\ IsLeap(y) THEN 1 ELSE 0)

\* date.toordinal()
ToOrdinal(y, m, d) == DaysBeforeYear(y) + DaysBeforeMonth(y, m) + d

\* date.fromordinal(n)
FromOrdinal(n) ==
    LET y == CHOOSE yy \in ((n \div 366) + 1)..((n \div 365) + 1) :
                 DaysBeforeYear(yy) < n /\ n <= DaysBeforeYear(yy + 1)
        r == n - DaysBeforeYear(y)
        m == CHOOSE mm \in 1..12 :
                 DaysBeforeMonth(y, mm) < r
                 /\ r <= DaysBeforeMonth(y, mm) + DaysInMonth(y, mm)
    IN  [year |-> y, month |-> m, day |-> r - DaysBeforeMonth(y, m)]

\* date.weekday(): Monday is 0
Weekday(y, m, d) == (ToOrdinal(y, m, d) + 6) % 7

\* The range check of datetime(year, month, day, hour, minute), which raises
\* ValueError when it fails
ValidDateTime(y, m, d, h, mi) ==
    /\ y \in 1..9999
    /\ m \in 1..12
    /\ d \in 1..DaysInMonth(y, m)
    /\ h \in 0..23
    /\ mi \in 0..59

\* JST.localize(datetime(y, m, d, h, mi, s)): Asia/Tokyo has one offset
Localize(y, m, d, h, mi, s) ==
    [year |-> y, month |-> m, day |-> d, hour |-> h, minute |-> mi,
     second |-> s, tz |-> JST_OFFSET]

\* AddDelta that wraps the time of day and forgets the carry into the date
AddDelta_no_carry(dt, days, seconds) ==
    LET total == dt.hour * 3600 + dt.minute * 60 + dt.second + seconds
        date  == FromOrdinal(ToOrdinal(dt.year, dt.month, dt.day) + days)
        sod   == total % 86400
    IN  [year |-> date.year, month |-> date.month, day |-> date.day,
         hour |-> sod \div 3600, minute |-> (sod % 3600) \div 60,
         second |-> sod % 60, tz |-> dt.tz]

\* dt + timedelta(days, seconds): the wall clock moves, the tzinfo is kept
AddDelta(dt, days, seconds) ==
    LET total == dt.hour * 3600 + dt.minute * 60 + dt.second + seconds
        date  == FromOrdinal(ToOrdinal(dt.year, dt.month, dt.day) + days
                             + (total \div 86400))
        sod   == total % 86400
    IN  [year |-> date.year, month |-> date.month, day |-> date.day,
         hour |-> sod \div 3600, minute |-> (sod % 3600) \div 60,
         second |-> sod % 60, tz |-> dt.tz]

Pad2(n) == <<Digits[(n \div 10) + 1], Digits[(n % 10) + 1]>>

Pad4(n) == Pad2(n \div 100) \o Pad2(n % 100)

\* datetime.isoformat() of an aware datetime: YYYY-MM-DDTHH:MM:SS+09:00
IsoFormat(dt) ==
    Pad4(dt.year) \o <<"-">> \o Pad2(dt.month) \o <<"-">> \o Pad2(dt.day)
    \o <<"T">> \o Pad2(dt.hour) \o <<":">> \o Pad2(dt.minute) \o <<":">>
    \o Pad2(dt.second) \o dt.tz

-----------------------------------------------------------------------------
(* The remote calendar (Google Calendar events resource), reached through *)
(* calendar_service.  An event is                                          *)
(*   [id, summary, start |-> [dateTime |-> text], end |-> [dateTime |-> text]] *)
(* and an all-day event has start |-> [date |-> text] instead.            *)

\* The instant <<day ordinal, second of day>> an RFC 3339 text names.  Every
\* text in the calendar carries the +09:00 offset.
ParseInstant(s) ==
    <<ToOrdinal(Num(s, 1, 2) * 100 + Num(s, 3, 2), Num(s, 6, 2), Num(s, 9, 2)),
      IF Len(s) >= 19
      THEN Num(s, 12, 2) * 3600 + Num(s, 15, 2) * 60 + Num(s, 18, 2)
      ELSE 0>>

Earlier(a, b) == a[1] < b[1] \/ (a[1] = b[1] /\ a[2] < b[2])

WhenText(w) == IF "dateTime" \in DOMAIN w THEN w.dateTime ELSE w.date

StartOf(e) == ParseInstant(WhenText(e.start))
EndOf(e)   == ParseInstant(WhenText(e.end))

\* The lists that hold every event of the keyed set S once, by ascending
\* start time.  The order of events with equal start times is the service's
\* choice.
RECURSIVE ByStartTime(_)
ByStartTime(S) ==
    IF S = {} THEN {<<>>}
    ELSE LET first == {x \in S : \A y \in S : ~Earlier(y.at, x.at)}
         IN  UNION {{<<x.event>> \o rest : rest \in ByStartTime(S \ {x})} :
                    x \in first}

\* InWindow with timeMin taken as an exclusive lower bound on the start
InWindow_start_after(e, tmin, tmax) ==
    Earlier(tmin, StartOf(e)) /\ Earlier(StartOf(e), tmax)

\* timeMin is an exclusive lower bound on an event's end, timeMax an
\* exclusive upper bound on its start
InWindow(e, tmin, tmax) == Earlier(tmin, EndOf(e)) /\ Earlier(StartOf(e), tmax)

\* events().list(timeMin, timeMax, singleEvents=True, orderBy='startTime'):
\* the set of lists the service may return
GatewayList(timeMin, timeMax) ==
    ByStartTime({[at |-> StartOf(e), event |-> e] :
                    e \in {e \in calendar :
                              InWindow(e, ParseInstant(timeMin), ParseInstant(timeMax))}})

\* events().insert(body=event): the stored event gets a fresh id
GatewayInsert(event) ==
    calendar \cup {[id |-> nextId] @@ event}

\* events().delete(eventId=id)
GatewayDelete(id) ==
    {e \in calendar : e.id # id}

-----------------------------------------------------------------------------
(* Parsing: extract_event_info, parse_delete_message, the first half of    *)
(* delete_event_from_data                                                  *)

URL_PREFIX == <<NL, "URL: ">>

extract_event_info(message) ==
    LET title_match      == SearchText(message, TITLE_MARK)
        date_match       == SearchDate(message)
        start_time_match == SearchTime(message)
        content_match    == SearchText(message, CONTENT_MARK)
        url_match        == SearchText(message, URL_MARK)
        title   == Strip(title_match.text)
        month   == date_match.g1
        day     == date_match.g2
        hour    == start_time_match.g1
        minute  == start_time_match.g2
        content == IF content_match.found THEN Strip(content_match.text) ELSE <<>>
        url     == IF url_match.found THEN Strip(url_match.text) ELSE <<>>
        year    == now.year
        dt      == Localize(year, month, day, hour, minute, 0)
    IN  IF ~(title_match.found /\ date_match.found /\ start_time_match.found)
        THEN [kind |-> "None"]
        ELSE IF ~ValidDateTime(year, month, day, hour, minute)
        THEN [kind |-> "raise", exc |-> "ValueError"]
        ELSE [kind        |-> "ok",
              title       |-> title,
              start_str   |-> IsoFormat(dt),
              end_str     |-> IsoFormat(AddDelta(dt, 0, 3600)),
              description |-> IF url # <<>> THEN content \o URL_PREFIX \o url
                              ELSE content]

DeleteFields == <<[mark |-> TITLE_MARK,   key |-> "title"],
                  [mark |-> DATE_MARK,    key |-> "date"],
                  [mark |-> TIME_MARK,    key |-> "start_time"],
                  [mark |-> CONTENT_MARK, key |-> "content"],
                  [mark |-> URL_MARK,     key |-> "url"]>>

\* data[key] = value on a dict
Put(data, key, value) ==
    [k \in DOMAIN data \cup {key} |-> IF k = key THEN value ELSE data[k]]

\* the for loop of parse_delete_message over the stripped, non-empty lines
RECURSIVE ParseLines(_, _)
ParseLines(lines, data) ==
    IF lines = <<>> THEN data
    ELSE LET line == Head(lines)
             hit  == {i \in 1..Len(DeleteFields) :
                         StartsWith(line, DeleteFields[i].mark)}
         IN  ParseLines(Tail(lines),
                 IF hit = {} THEN data
                 ELSE LET f == DeleteFields[SetMin(hit)]
                      IN  Put(data, f.key, Strip(Remove(line, f.mark))))

EmptyDict == [k \in {} |-> <<>>]

StripEach(lines) == [i \in 1..Len(lines) |-> Strip(lines[i])]

parse_delete_message(message) ==
    LET content == Strip(Remove(message, DELETE_MARK))
        lines   == SelectSeq(StripEach(SplitLines(content)), LAMBDA l : l # <<>>)
    IN  ParseLines(lines, EmptyDict)

\* not data.get(key)
Falsy(data, key) == key \notin DOMAIN data \/ data[key] = <<>>

\* a, b = map(int, parts)
IntPair(parts) ==
    IF Len(parts) = 2 /\ IntParse(parts[1]).ok /\ IntParse(parts[2]).ok
    THEN [ok |-> TRUE, a |-> IntParse(parts[1]).val, b |-> IntParse(parts[2]).val]
    ELSE [ok |-> FALSE, a |-> 0, b |-> 0]

\* delete_window with datetime(...) built after the try block, so that a
\* value out of range leaves the function as an exception
delete_window_narrow_try(data) ==
    LET year      == now.year
        md        == IntPair(Split(data["date"], "/"))
        time_part == data["start_time"]
        hm        == IF Contains(time_part, ":")
                     THEN IntPair(Split(time_part, ":"))
                     ELSE [ok |-> IntParse(time_part).ok,
                           a  |-> IntParse(time_part).val, b |-> 0]
        start_dt  == Localize(year, md.a, md.b, hm.a, hm.b, 0)
    IN  IF ~(md.ok /\ hm.ok) THEN [kind |-> "error", exc |-> "ValueError"]
        ELSE IF ~ValidDateTime(year, md.a, md.b, hm.a, hm.b)
        THEN [kind |-> "raise", exc |-> "ValueError"]
        ELSE [kind |-> "ok", start_dt |-> start_dt,
              end_dt |-> AddDelta(start_dt, 0, 3600)]

\* The try block of delete_event_from_data: the search window ("ok"), or the
\* exception that the except clause turns into a reply ("error").  An
\* exception that left the function would be "raise"; the try block covers
\* every statement that can raise, so there is none.
delete_window(data) ==
    LET year      == now.year
        md        == IntPair(Split(data["date"], "/"))
        time_part == data["start_time"]
        hm        == IF Contains(time_part, ":")
                     THEN IntPair(Split(time_part, ":"))
                     ELSE [ok |-> IntParse(time_part).ok,
                           a  |-> IntParse(time_part).val, b |-> 0]
        start_dt  == Localize(year, md.a, md.b, hm.a, hm.b, 0)
    IN  IF "date" \notin DOMAIN data \/ "start_time" \notin DOMAIN data
        THEN [kind |-> "error", exc |-> "KeyError"]
        ELSE IF md.ok /\ hm.ok /\ ValidDateTime(year, md.a, md.b, hm.a, hm.b)
        THEN [kind |-> "ok", start_dt |-> start_dt,
              end_dt |-> AddDelta(start_dt, 0, 3600)]
        ELSE [kind |-> "error", exc |-> "ValueError"]

\* FirstMatch as a loop that keeps the last match instead of returning
FirstMatch_last(events, title) ==
    LET hit == {i \in 1..Len(events) : events[i].summary = title}
    IN  IF hit = {} THEN 0 ELSE SetMax(hit)

\* The first event of the list whose summary is the title: the for loop of
\* delete_event_from_data.  0 when there is none.
FirstMatch(events, title) ==
    LET hit == {i \in 1..Len(events) : events[i].summary = title}
    IN  IF hit = {} THEN 0 ELSE SetMin(hit)

-----------------------------------------------------------------------------
(* format_events *)

NO_EVENTS == "[NO_EVENTS]"
REMINDER  == "[REMINDER]"
WEEK_HEADER     == "[THIS_WEEK]"
TOMORROW_HEADER == "[TOMORROW]"

\* text[a:b] with 0 <= a <= b
Slice(text, a, b) ==
    SubSeq(text, a + 1, IF b < Len(text) THEN b ELSE Len(text))

\* '\n'.join(lines)
RECURSIVE Join(_)
Join(lines) ==
    IF lines = <<>> THEN <<>>
    ELSE IF Len(lines) = 1 THEN lines[1]
    ELSE lines[1] \o <<NL>> \o Join(Tail(lines))

EventLine(e) ==
    LET start == Slice(IF "dateTime" \in DOMAIN e.start THEN e.start.dateTime
                       ELSE <<>>, 11, 16)
    IN  start \o <<" ", "-", " ">> \o e.summary

\* format_events that puts each entry line in front of the earlier ones
format_events_reversed(events, header) ==
    IF events = <<>> THEN <<header, NL, NO_EVENTS>>
    ELSE Join(<<(<<header>>)>>
              \o [i \in 1..Len(events) |-> EventLine(events[Len(events) + 1 - i])]
              \o <<(<<NL, REMINDER>>)>>)

format_events(events, header) ==
    IF events = <<>> THEN <<header, NL, NO_EVENTS>>
    ELSE Join(<<(<<header>>)>>
              \o [i \in 1..Len(events) |-> EventLine(events[i])]
              \o <<(<<NL, REMINDER>>)>>)

-----------------------------------------------------------------------------
(* Bounds and inputs *)

\* how many messages one run of Spec handles
MaxMessages == 2

\* how many events the remote calendar accepts from the bot in one run
MaxCreated == 2

\* the clock: a Sunday in a common year and a Tuesday in a leap year, at 20:00
Nows == {Localize(2023, 7, 9, 20, 0, 0), Localize(2024, 7, 9, 20, 0, 0)}

NumText(n) == IF n < 10 THEN <<Digits[n + 1]>> ELSE Pad2(n)

DateText(m, d) == NumText(m) \o <<"/">> \o NumText(d)

TimeText(h, mi) == NumText(h) \o <<":">> \o Pad2(mi)

\* a message with one field per line
CreateMessage(title, date, time) ==
    <<TITLE_MARK>> \o title \o <<NL, DATE_MARK>> \o date \o <<NL, TIME_MARK>> \o time

\* the delete command for a create message: the same lines under the marker
DeleteMessageFor(create) == <<DELETE_MARK, NL>> \o create

\* Events that are in the calendar before the bot starts, on 10 July of the
\* clock's year: two timed events titled "a" around 14:00 and an all-day "b"
Existing(y) ==
    LET at(h, mi) == IsoFormat(Localize(y, 7, 10, h, mi, 0))
        tz == "Asia/Tokyo"
    IN  {[id |-> 1, summary |-> <<"a">>,
          start |-> [dateTime |-> at(13, 30), timeZone |-> tz],
          end   |-> [dateTime |-> at(14, 30), timeZone |-> tz]],
         [id |-> 2, summary |-> <<"a">>,
          start |-> [dateTime |-> at(14, 30), timeZone |-> tz],
          end   |-> [dateTime |-> at(15, 30), timeZone |-> tz]],
         [id |-> 3, summary |-> <<"b">>,
          start |-> [date |-> SubSeq(at(0, 0), 1, 10)],
          end   |-> [date |-> SubSeq(IsoFormat(Localize(y, 7, 11, 0, 0, 0)), 1, 10)]]}

FirstId == Cardinality(Existing(2024)) + 1

\* the calendars a run may start from: empty, without the earlier "a", full
InitialCalendars(y) ==
    {{}, {e \in Existing(y) : e.id # 1}, Existing(y)}

CommandTitles == {<<"a">>, <<"a", DELETE_MARK>>, <<" ">>}

CommandCreates ==
    {CreateMessage(t, DateText(7, 10), TimeText(14, 0)) : t \in CommandTitles}

\* what Spec's chat sends: creates, their delete commands, and small talk
Commands ==
    CommandCreates \cup {DeleteMessageFor(c) : c \in CommandCreates}
    \cup {<<"h", "i">>}

-----------------------------------------------------------------------------
(* State *)

NoReplyYet == [kind |-> "pending"]
Nothing    == [kind |-> "none"]
RtOff      == [stage |-> "off"]

Init ==
    /\ now \in Nows
    /\ calendar \in InitialCalendars(now.year)
    /\ nextId = FirstId
    /\ hpc = "idle"
    /\ msg = <<>>
    /\ pending = Nothing
    /\ reply = NoReplyYet
    /\ calls = <<>>
    /\ handled = 0
    /\ rt = RtOff
    /\ digestIn = Nothing
    /\ pushed = <<>>
    /\ dcalls = <<>>

-----------------------------------------------------------------------------
(* handle_incoming_message *)

\* handle_incoming_message up to its first Calendar call: the reply it
\* returns at once, or the call it goes on to make
\* IncompleteDelete without the start_time test
IncompleteDelete_no_time(data) ==
    Falsy(data, "title") \/ Falsy(data, "date")

IncompleteDelete(data) ==
    Falsy(data, "title") \/ Falsy(data, "date") \/ Falsy(data, "start_time")

\* LacksMarker without the start-time marker test
LacksMarker_no_time(message_text) ==
    \/ ~Contains(message_text, TITLE_MARK)
    \/ ~Contains(message_text, DATE_MARK)

LacksMarker(message_text) ==
    \/ ~Contains(message_text, TITLE_MARK)
    \/ ~Contains(message_text, DATE_MARK)
    \/ ~Contains(message_text, TIME_MARK)

DoneWith(r) == [pc |-> "done", pending |-> Nothing, reply |-> r]

\* delete_event_from_data after its try block: the error reply, or on to
\* get_events_between
WindowOutcome(data, w) ==
    IF w.kind = "raise" THEN DoneWith([kind |-> "raise", exc |-> w.exc])
    ELSE IF w.kind = "error" THEN DoneWith([kind |-> "BadDateTime", exc |-> w.exc])
    ELSE [pc |-> "list",
          pending |-> [kind |-> "list", data |-> data,
                       start_dt |-> w.start_dt, end_dt |-> w.end_dt],
          reply |-> NoReplyYet]

\* the delete branch of handle_incoming_message, on the parsed fields
DeleteOutcome(data) ==
    IF IncompleteDelete(data) THEN DoneWith([kind |-> "Incomplete"])
    ELSE WindowOutcome(data, delete_window(data))

\* the create branch of handle_incoming_message, on what extract_event_info
\* returned or raised
CreateOutcome(parsed) ==
    IF parsed.kind = "raise" THEN DoneWith([kind |-> "raise", exc |-> parsed.exc])
    ELSE IF parsed.kind = "None" THEN DoneWith([kind |-> "Usage"])
    ELSE [pc |-> "create",
          pending |-> [kind |-> "create", title |-> parsed.title,
                       start_str |-> parsed.start_str,
                       end_str |-> parsed.end_str,
                       description |-> parsed.description],
          reply |-> NoReplyYet]

handle_incoming_message(message_text) ==
    IF StartsWith(message_text, DELETE_MARK)
    THEN DeleteOutcome(parse_delete_message(message_text))
    ELSE IF LacksMarker(message_text) THEN DoneWith([kind |-> "None"])
    ELSE CreateOutcome(extract_event_info(message_text))

\* the bookkeeping of "a create followed by its delete command"
RtOnReceive(m) ==
    IF rt.stage = "created" /\ m = DeleteMessageFor(rt.create)
    THEN [rt EXCEPT !.stage = "deleting"]
    ELSE IF rt.stage = "deleting" THEN RtOff
    ELSE rt

\* the handler takes the position, the pending call and the reply of r
Enter(r) ==
    /\ hpc' = r.pc
    /\ pending' = r.pending
    /\ reply' = r.reply

\* A message of the chat arrives and is handled up to its first Calendar call
Receive(chat) ==
    /\ hpc \in {"idle", "done"}
    /\ handled < MaxMessages
    /\ \E m \in chat :
        /\ Enter(handle_incoming_message(m))
        /\ msg' = m
        /\ rt' = RtOnReceive(m)
    /\ calls' = <<>>
    /\ handled' = handled + 1
    /\ UNCHANGED <<now, calendar, nextId, digestIn, pushed, dcalls>>

\* the body add_event sends
EventBody(summary, start_time_str, end_time_str, description) ==
    LET event == [summary |-> summary,
                  start |-> [dateTime |-> start_time_str, timeZone |-> "Asia/Tokyo"],
                  end   |-> [dateTime |-> end_time_str, timeZone |-> "Asia/Tokyo"]]
    IN  IF description # <<>> THEN [description |-> description] @@ event
        ELSE event

\* add_event and the confirmation; the insert may fail remotely
add_event ==
    /\ hpc = "create"
    /\ \E ok \in BOOLEAN :
        LET event == EventBody(pending.title, pending.start_str, pending.end_str,
                               pending.description)
        IN  /\ ok => nextId - FirstId < MaxCreated
            /\ calls' = Append(calls, [op |-> "insert", ok |-> ok, body |-> event])
            /\ IF ok
               THEN /\ calendar' = GatewayInsert(event)
                    /\ nextId' = nextId + 1
                    /\ reply' = [kind |-> "Registered", title |-> pending.title,
                                 start |-> pending.start_str]
                    /\ rt' = [stage |-> "created", before |-> calendar,
                              create |-> msg, title |-> pending.title,
                              start |-> pending.start_str,
                              end |-> pending.end_str, id |-> nextId]
               ELSE /\ reply' = [kind |-> "raise", exc |-> "RemoteFailure"]
                    /\ UNCHANGED <<calendar, nextId, rt>>
    /\ hpc' = "done"
    /\ pending' = Nothing
    /\ UNCHANGED <<now, msg, handled, digestIn, pushed, dcalls>>

\* delete_event_search with a failed list taken for an empty one
delete_event_search_swallow ==
    /\ hpc = "list"
    /\ \/ /\ calls' = Append(calls, [op |-> "list", ok |-> FALSE])
          /\ reply' = [kind |-> "NotFound"]
          /\ hpc' = "done"
          /\ pending' = Nothing
       \/ \E events \in GatewayList(IsoFormat(pending.start_dt),
                                    IsoFormat(pending.end_dt)) :
            LET i == FirstMatch(events, pending.data["title"])
            IN  /\ calls' = Append(calls, [op |-> "list", ok |-> TRUE,
                                           result |-> events])
                /\ IF i = 0
                   THEN /\ reply' = [kind |-> "NotFound"]
                        /\ hpc' = "done"
                        /\ pending' = Nothing
                   ELSE /\ reply' = reply
                        /\ hpc' = "delete"
                        /\ pending' = [kind |-> "delete", data |-> pending.data,
                                       id |-> events[i].id]
    /\ UNCHANGED <<now, calendar, nextId, msg, handled, rt, digestIn, pushed, dcalls>>

\* get_events_between and the scan for the title in delete_event_from_data
delete_event_search ==
    /\ hpc = "list"
    /\ \/ /\ calls' = Append(calls, [op |-> "list", ok |-> FALSE])
          /\ reply' = [kind |-> "raise", exc |-> "RemoteFailure"]
          /\ hpc' = "done"
          /\ pending' = Nothing
       \/ \E events \in GatewayList(IsoFormat(pending.start_dt),
                                    IsoFormat(pending.end_dt)) :
            LET i == FirstMatch(events, pending.data["title"])
            IN  /\ calls' = Append(calls, [op |-> "list", ok |-> TRUE,
                                           result |-> events])
                /\ IF i = 0
                   THEN /\ reply' = [kind |-> "NotFound"]
                        /\ hpc' = "done"
                        /\ pending' = Nothing
                   ELSE /\ reply' = reply
                        /\ hpc' = "delete"
                        /\ pending' = [kind |-> "delete", data |-> pending.data,
                                       id |-> events[i].id]
    /\ UNCHANGED <<now, calendar, nextId, msg, handled, rt, digestIn, pushed, dcalls>>

\* events().delete of the matched event and the confirmation
delete_event_delete ==
    /\ hpc = "delete"
    /\ \E ok \in BOOLEAN :
        /\ ok => \E e \in calendar : e.id = pending.id
        /\ calls' = Append(calls, [op |-> "delete", ok |-> ok, id |-> pending.id])
        /\ IF ok
           THEN /\ calendar' = GatewayDelete(pending.id)
                /\ reply' = [kind |-> "Deleted", title |-> pending.data["title"]]
                /\ rt' = IF rt.stage = "deleting" THEN rt ELSE RtOff
           ELSE /\ reply' = [kind |-> "raise", exc |-> "RemoteFailure"]
                /\ UNCHANGED <<calendar, rt>>
    /\ hpc' = "done"
    /\ pending' = Nothing
    /\ UNCHANGED <<now, nextId, msg, handled, digestIn, pushed, dcalls>>

-----------------------------------------------------------------------------
(* The digest jobs *)

\* Digest that also clears the events it has reported from the calendar
Digest_purging(start, end, header) ==
    /\ \/ /\ dcalls' = <<[op |-> "list", ok |-> FALSE, during |-> hpc]>>
          /\ UNCHANGED <<digestIn, pushed, calendar>>
       \/ \E events \in GatewayList(IsoFormat(start), IsoFormat(end)) :
            /\ dcalls' = <<[op |-> "list", ok |-> TRUE, during |-> hpc],
                           [op |-> "delete", ok |-> TRUE, during |-> hpc]>>
            /\ digestIn' = [header |-> header, events |-> events]
            /\ pushed' = format_events(events, header)
            /\ calendar' = {e \in calendar : \A i \in 1..Len(events) : events[i] # e}
    /\ UNCHANGED <<now, nextId, hpc, msg, pending, reply, calls, handled, rt>>

\* One digest: list the window, format, push; the list may fail remotely.
\* dcalls is the Calendar calls of the latest digest, each with the
\* position of the command handler at the time of the call.
Digest(start, end, header) ==
    /\ \/ /\ dcalls' = <<[op |-> "list", ok |-> FALSE, during |-> hpc]>>
          /\ UNCHANGED <<digestIn, pushed>>
       \/ \E events \in GatewayList(IsoFormat(start), IsoFormat(end)) :
            /\ dcalls' = <<[op |-> "list", ok |-> TRUE, during |-> hpc]>>
            /\ digestIn' = [header |-> header, events |-> events]
            /\ pushed' = format_events(events, header)
    /\ UNCHANGED <<now, calendar, nextId, hpc, msg, pending, reply, calls, handled, rt>>

notify_week_events ==
    LET today    == now
        start    == Localize(today.year, today.month, today.day, 0, 0, 0)
        end_date == AddDelta(today, 6 - Weekday(today.year, today.month, today.day), 0)
        end      == Localize(end_date.year, end_date.month, end_date.day, 23, 59, 59)
    IN  Digest(start, end, WEEK_HEADER)

notify_tomorrow_events ==
    LET tomorrow == AddDelta(now, 1, 0)
        start    == Localize(tomorrow.year, tomorrow.month, tomorrow.day, 0, 0, 0)
        end      == AddDelta(start, 1, 0)
    IN  Digest(start, end, TOMORROW_HEADER)

Next ==
    \/ Receive(Commands)
    \/ add_event
    \/ delete_event_search
    \/ delete_event_delete
    \/ notify_week_events
    \/ notify_tomorrow_events

Spec == Init /\ [][Next]_vars

-----------------------------------------------------------------------------
(* One message, drawn from every well-formed date and time and from a      *)
(* product of well-formed and malformed field lines                        *)

ParseMinutes == {0, 59}

WellFormedCreates ==
    {CreateMessage(<<"a">>, DateText(m, d), TimeText(h, mi)) :
        m \in 1..12, d \in 1..31, h \in 0..23, mi \in ParseMinutes}

TitleLines ==
    {<<>>, <<TITLE_MARK>>, <<TITLE_MARK, " ">>, <<TITLE_MARK, "a">>,
     <<TITLE_MARK, " ", "a", DELETE_MARK, " ">>}

DateLines ==
    {<<>>, <<DATE_MARK>>} \cup
    {<<DATE_MARK>> \o t : t \in
        {<<"7", "/", "1", "0">>, <<"7", "-", "1", "0">>, <<"0", "7", "/", "1", "0">>,
         <<" ", "7", "/", " ", "1", "0">>, <<"1", "3", "/", "1">>,
         <<"2", "/", "3", "0">>, <<"0", "/", "5">>, <<"7", "/", "3", "2">>,
         <<"x", "/", "1">>, <<"7", "/", "1", "0", "/", "1">>, <<"7", "/">>,
         <<"-", "7", "/", "1", "0">>, <<"7", "1", "0">>}}

TimeLines ==
    {<<>>, <<TIME_MARK>>} \cup
    {<<TIME_MARK>> \o t : t \in
        {<<"1", "4", ":", "0", "0">>, <<"1", "4">>, <<"2", "4", ":", "0", "0">>,
         <<"1", "4", ":", "6", "0">>, <<"1", "4", ":", "0">>, <<"x">>,
         <<"1", "4", ":", "0", "0", ":", "0", "0">>, <<"2", "3", ":", "5", "9">>,
         <<"2", "5">>}}

\* '\n'.join of the lines that are there
Lines3(a, b, c) ==
    Join(SelectSeq(<<a, b, c>>, LAMBDA l : l # <<>>))

MixedMessages ==
    {p \o Lines3(t, d, h) :
        p \in {<<>>, <<DELETE_MARK, NL>>}, t \in TitleLines, d \in DateLines,
        h \in TimeLines}

ParseMessages == WellFormedCreates \cup MixedMessages

InitParse ==
    /\ now \in Nows
    /\ calendar = Existing(now.year)
    /\ nextId = FirstId
    /\ hpc = "idle"
    /\ msg = <<>>
    /\ pending = Nothing
    /\ reply = NoReplyYet
    /\ calls = <<>>
    /\ handled = MaxMessages - 1
    /\ rt = RtOff
    /\ digestIn = Nothing
    /\ pushed = <<>>
    /\ dcalls = <<>>

NextParse ==
    \/ Receive(ParseMessages)
    \/ add_event
    \/ delete_event_search
    \/ delete_event_delete

SpecParse == InitParse /\ [][NextParse]_vars

-----------------------------------------------------------------------------
(* format_events on every short list of entries, sorted or not *)

MaxEntries == 3

FormatEntries ==
    {[id |-> 1, summary |-> <<"a">>,
      start |-> [dateTime |-> IsoFormat(Localize(2024, 7, 10, 14, 0, 0))]],
     [id |-> 2, summary |-> <<"b", " ", "c">>,
      start |-> [dateTime |-> IsoFormat(Localize(2024, 7, 9, 9, 5, 0))]],
     [id |-> 3, summary |-> <<"a">>,
      start |-> [date |-> SubSeq(IsoFormat(Localize(2024, 7, 11, 0, 0, 0)), 1, 10)]]}

InitFormat ==
    /\ now \in Nows
    /\ calendar = {}
    /\ nextId = FirstId
    /\ hpc = "idle"
    /\ msg = <<>>
    /\ pending = Nothing
    /\ reply = NoReplyYet
    /\ calls = <<>>
    /\ handled = 0
    /\ rt = RtOff
    /\ \E n \in 0..MaxEntries : \E events \in [1..n -> FormatEntries] :
         \E header \in {WEEK_HEADER, TOMORROW_HEADER} :
            digestIn = [header |-> header, events |-> events]
    /\ pushed = <<>>
    /\ dcalls = <<>>

\* msg = format_events(events, header), on the entries at hand
format_events_call ==
    /\ pushed = <<>>
    /\ pushed' = format_events(digestIn.events, digestIn.header)
    /\ UNCHANGED <<now, calendar, nextId, hpc, msg, pending, reply, calls, handled,
                   rt, digestIn, dcalls>>

NextFormat == format_events_call

SpecFormat == InitFormat /\ [][NextFormat]_vars

-----------------------------------------------------------------------------
(* Properties *)

\* a message has been received (the handler never returns to "idle")
Received == hpc # "idle"

IsDelete == StartsWith(msg, DELETE_MARK)

HasAllMarkers ==
    Contains(msg, TITLE_MARK) /\ Contains(msg, DATE_MARK) /\ Contains(msg, TIME_MARK)

\* C1: a message that is no delete command, holds the title, date and
\* start-time markers and fails pattern or numeric validation gets the usage
\* reply, without any Calendar call and without an exception.
C1_MalformedCreateGetsUsage ==
    (hpc = "done" /\ ~IsDelete /\ HasAllMarkers
        /\ extract_event_info(msg).kind # "ok")
    => (reply = [kind |-> "Usage"] /\ calls = <<>>)

\* the fields of a delete command, read line by line
DeleteData == parse_delete_message(msg)

MissingDeleteField ==
    \E k \in {"title", "date", "start_time"} : Falsy(DeleteData, k)

\* C3: a delete command from which title, date or start_time is missing gets
\* the incomplete-command reply at once, and no Calendar call is made.
C3_IncompleteDelete ==
    (Received /\ IsDelete /\ MissingDeleteField)
    => (hpc = "done" /\ reply = [kind |-> "Incomplete"] /\ calls = <<>>
        /\ calendar = Existing(now.year))

\* C3 at work: a delete command with title and date and no time marker at all
C3_Witness ==
    /\ Received /\ IsDelete /\ ~Contains(msg, TIME_MARK)
    /\ ~Falsy(DeleteData, "title") /\ ~Falsy(DeleteData, "date")
    /\ reply = [kind |-> "Incomplete"]

\* C4: a message that is no delete command and lacks the title, date or
\* start-time marker gets no reply, raises nothing, and makes no Calendar
\* call: the calendar is as it was.
C4_IgnoredMessage ==
    (Received /\ ~IsDelete /\ ~HasAllMarkers)
    => (hpc = "done" /\ reply = [kind |-> "None"] /\ calls = <<>>
        /\ calendar = Existing(now.year))

\* C4 at work: title and date are there, only the start-time marker is not
C4_Witness ==
    /\ Received /\ ~IsDelete
    /\ Contains(msg, TITLE_MARK) /\ Contains(msg, DATE_MARK)
    /\ ~Contains(msg, TIME_MARK)
    /\ reply = [kind |-> "None"]

\* text is a decimal numeral (spaces around it and a sign allowed) of lo..hi
Numeral(text, lo, hi) ==
    \E n \in lo..hi : IntParse(text) = [ok |-> TRUE, val |-> n]

\* text is M/D for a day D of month M of this year
GoodDate(text) ==
    LET parts == Split(text, "/")
    IN  /\ Len(parts) = 2
        /\ \E m \in 1..12 : /\ Numeral(parts[1], m, m)
                            /\ Numeral(parts[2], 1, DaysInMonth(now.year, m))

\* text is H or H:MM for an hour and a minute of the day
GoodTime(text) ==
    LET parts == Split(text, ":")
    IN  \/ Len(parts) = 1 /\ Numeral(text, 0, 23)
        \/ Len(parts) = 2 /\ Numeral(parts[1], 0, 23) /\ Numeral(parts[2], 0, 59)

\* C6: a delete command with title, date and start_time whose date or time
\* text is not a date-time gets the error reply naming the failure, raises
\* nothing and makes no Calendar call.
C6_BadDeleteDateTime ==
    (Received /\ IsDelete /\ ~MissingDeleteField
        /\ ~(GoodDate(DeleteData["date"]) /\ GoodTime(DeleteData["start_time"])))
    => (hpc = "done" /\ reply.kind = "BadDateTime" /\ calls = <<>>)

\* C6 at work: the numerals are fine, the date is out of range for its month
C6_Witness ==
    /\ Received /\ IsDelete /\ ~MissingDeleteField
    /\ DeleteData["date"] = <<"2", "/", "3", "0">>
    /\ GoodTime(DeleteData["start_time"])
    /\ reply = [kind |-> "BadDateTime", exc |-> "ValueError"]

\* the date and time an ISO text YYYY-MM-DDTHH:MM:SS+09:00 shows
Shown(text) ==
    [year   |-> Num(text, 1, 2) * 100 + Num(text, 3, 2),
     month  |-> Num(text, 6, 2), day |-> Num(text, 9, 2),
     hour   |-> Num(text, 12, 2), minute |-> Num(text, 15, 2),
     second |-> Num(text, 18, 2)]

Offset(text) == SubSeq(text, 20, Len(text))

\* the wall clock one hour after t, by the calendar's rules
OneHourAfter(t) ==
    IF t.hour < 23 THEN [t EXCEPT !.hour = t.hour + 1]
    ELSE IF t.day < DaysInMonth(t.year, t.month)
    THEN [t EXCEPT !.hour = 0, !.day = t.day + 1]
    ELSE IF t.month < 12
    THEN [t EXCEPT !.hour = 0, !.day = 1, !.month = t.month + 1]
    ELSE [t EXCEPT !.hour = 0, !.day = 1, !.month = 1, !.year = t.year + 1]

\* C7: the event extract_event_info yields for a valid create message ends
\* exactly one hour after it starts, across midnight, month end and year end
\* too, and both texts carry the +09:00 offset.
C7_OneHourEvent ==
    hpc = "create"
    => /\ Shown(pending.end_str) = OneHourAfter(Shown(pending.start_str))
       /\ Offset(pending.start_str) = JST_OFFSET
       /\ Offset(pending.end_str) = JST_OFFSET

\* C7 at work: 31 December 23:59 ends in January of the next year
C7_Witness ==
    /\ hpc = "create"
    /\ Shown(pending.start_str) =
          [year |-> now.year, month |-> 12, day |-> 31, hour |-> 23,
           minute |-> 59, second |-> 0]
    /\ Shown(pending.end_str).year = now.year + 1

\* the HH:MM an entry line shows: characters 12 to 16 of the start text, or
\* nothing for an entry without a start time
ShownTime(e) ==
    IF "dateTime" \in DOMAIN e.start
    THEN <<e.start.dateTime[12], e.start.dateTime[13], ":",
           e.start.dateTime[15], e.start.dateTime[16]>>
    ELSE <<>>

\* C8: format_events gives the header and the no-events line for no entries;
\* otherwise the header line, one line per entry in the order of the input,
\* the i-th from the i-th entry's start time and summary, and the reminder.
C8_DigestMirrorsInput ==
    pushed # <<>>
    => LET events == digestIn.events
           lines  == Split(pushed, NL)
           n      == Len(events)
       IN  IF n = 0 THEN pushed = <<digestIn.header, NL, NO_EVENTS>>
           ELSE /\ Len(lines) = n + 3
                /\ lines[1] = <<digestIn.header>>
                /\ \A i \in 1..n :
                      lines[i + 1] = ShownTime(events[i]) \o <<" ", "-", " ">>
                                     \o events[i].summary
                /\ lines[n + 2] = <<>>
                /\ lines[n + 3] = <<REMINDER>>

\* C8 at work: three entries out of start order, one of them twice
C8_Witness ==
    /\ pushed # <<>>
    /\ Len(digestIn.events) = 3
    /\ digestIn.events[1].id = 1
    /\ digestIn.events[2].id = 2
    /\ digestIn.events[3].id = 1

\* C2: when the list of the window holds an entry whose summary is the
\* requested title, delete is called once, with the id of the first such
\* entry of the list, and the reply is the success text with the title; when
\* it holds none, the reply is the not-found text and delete is not called.
C2_FirstExactMatch ==
    (hpc = "done" /\ IsDelete /\ calls # <<>> /\ calls[1].ok)
    => LET title  == DeleteData["title"]
           events == calls[1].result
           hit    == {i \in 1..Len(events) : events[i].summary = title}
       IN  IF hit = {}
           THEN reply = [kind |-> "NotFound"] /\ Len(calls) = 1
           ELSE /\ Len(calls) = 2
                /\ calls[2].op = "delete"
                /\ calls[2].id = events[SetMin(hit)].id
                /\ calls[2].ok => reply = [kind |-> "Deleted", title |-> title]

\* C2 at work: the list starts with an entry of another title and holds two
\* of the requested one
C2_Witness ==
    /\ hpc = "done" /\ IsDelete /\ reply.kind = "Deleted"
    /\ Len(calls[1].result) >= 3
    /\ calls[1].result[1].summary # DeleteData["title"]
    /\ calls[1].result[2].summary = DeleteData["title"]
    /\ calls[1].result[3].summary = DeleteData["title"]

\* C5: a failed Calendar call ends the handling of the message with the
\* error: no reply text, no second call of the same kind, no later call.
C5_RemoteFailurePropagates ==
    \A i \in 1..Len(calls) :
        ~calls[i].ok
        => /\ hpc = "done"
           /\ reply = [kind |-> "raise", exc |-> "RemoteFailure"]
           /\ i = Len(calls)
           /\ \A j \in 1..(i - 1) : calls[j].op # calls[i].op

\* C5 at work: the list went through and the delete failed
C5_Witness ==
    /\ hpc = "done" /\ Len(calls) = 2
    /\ calls[1].ok /\ calls[2].op = "delete" /\ ~calls[2].ok

\* C9: a step of a digest job makes list calls only and leaves the calendar
\* and the command in flight as they are, wherever the command stands.
C9_DigestReadOnly ==
    [][(notify_week_events \/ notify_tomorrow_events)
       => /\ calendar' = calendar
          /\ nextId' = nextId
          /\ <<hpc, msg, pending, reply, calls, handled, rt>>'
                = <<hpc, msg, pending, reply, calls, handled, rt>>
          /\ \A i \in 1..Len(dcalls') : dcalls'[i].op = "list"]_vars

\* C9 at work: the latest digest listed the calendar between the list and
\* the delete of a command, which then deleted its event
C9_Witness ==
    /\ dcalls # <<>> /\ dcalls[1].ok /\ dcalls[1].during = "delete"
    /\ hpc = "done" /\ reply.kind = "Deleted"

\* the delete command of the latest create has been handled without a
\* Calendar failure
RoundTripDone ==
    rt.stage = "deleting" /\ hpc = "done" /\ reply.kind # "raise"

\* a title that a delete command's title line can carry: some text, without
\* the delete marker, the title marker or a line break
PlainTitle(t) ==
    t # <<>> /\ \A i \in 1..Len(t) : t[i] \notin {DELETE_MARK, TITLE_MARK, CR}

\* C10 as claimed: a create with a title followed by the delete command with
\* that title, date and time is answered with the success text and leaves the
\* calendar as it was before the create, whatever else the calendar holds.
C10_RoundTripAlways ==
    (RoundTripDone /\ PlainTitle(rt.title))
    => (reply.kind = "Deleted" /\ calendar = rt.before)

\* before the create, no event of the created title in the search window
\* started at or before the created start
NoEarlierNamesake ==
    \A e \in rt.before :
        (e.summary = rt.title
            /\ Earlier(ParseInstant(rt.start), EndOf(e))
            /\ Earlier(StartOf(e), ParseInstant(rt.end)))
        => Earlier(ParseInstant(rt.start), StartOf(e))

\* C10 amended: the round trip restores the calendar when the title is plain
\* and no other event of that title in the window starts at or before the
\* created one.
C10_RoundTripWhenFirst ==
    (RoundTripDone /\ PlainTitle(rt.title) /\ NoEarlierNamesake)
    => (reply.kind = "Deleted" /\ calendar = rt.before)

\* C10 at work: the calendar held an event of the same title in the window,
\* starting later, and the round trip removed the created one
C10_Witness ==
    /\ RoundTripDone /\ PlainTitle(rt.title) /\ NoEarlierNamesake
    /\ \E e \in rt.before :
          /\ e.summary = rt.title
          /\ Earlier(StartOf(e), ParseInstant(rt.end))
          /\ Earlier(ParseInstant(rt.start), EndOf(e))
    /\ reply.kind = "Deleted" /\ calendar = rt.before

====
